---------------------------- MODULE Spec2Model ----------------------------
(***************************************************************************)
(* The next-best-view planning loop of dense_reconstruction's ViewPlanner  *)
(* (src/src/dense_reconstruction/code_base/view_planner.cpp): run(), the   *)
(* retry helpers retrieveDataAndWait and moveToAndWait, pauseIfRequested,  *)
(* the command handler commandCallback and the data recorder.              *)
(*                                                                         *)
(* run() is one thread.  Commands are delivered only inside ros::spinOnce, *)
(* and the subscriber's queue holds one message, so a spinOnce step        *)
(* processes at most one command.  Every spinOnce of the code is a step of *)
(* its own here; the code between two spinOnce calls that talks to no      *)
(* retried service is one step.                                            *)
(*                                                                         *)
(* Indices are those of the C++ code (0-based); TLA+ sequences are         *)
(* 1-based, so element i of a std::vector v is v[i + 1].                   *)
(***************************************************************************)
EXTENDS Integers, Sequences, FiniteSets, TLC

(***************************************************************************)
(* Bounds of the model.                                                    *)
(***************************************************************************)
\* number of views of the view space the robot interface sends
NumViews == 2
\* iterations of the planning loop the model follows
MaxRounds == 2
\* attempts of one retry helper call the model follows
MaxAttempts == 2
\* movement costs the cost service answers: 0..MaxCost
MaxCost == 1
\* information values the information service answers: 1..MaxInfo
MaxInfo == 1
\* weight of the first information metric on the parameter server: 0..MaxWeight
MaxWeight == 1

(***************************************************************************)
(* Program constants.                                                      *)
(***************************************************************************)
\* cost_weight_ when the parameter server holds none
DefaultCostWeight == 1
\* cost[i] of a view whose cost evaluation reported an exception
InvalidCost == -1
\* marker of the declared, never assigned nbv_index
Uninit == -1
\* marker of current_view_ before getCurrentView succeeded
NoView == -1

metrics_to_use_ ==
    << "NrOfUnknownVoxels", "AverageUncertainty", "AverageEndPointUncertainty",
       "UnknownObjectSideFrontier", "UnknownObjectVolumeFrontier",
       "ClassicFrontier", "EndNodeOccupancySum", "TotalOccupancyCertainty",
       "TotalNrOfOccupieds" >>

BaseDataNames ==
    << "pos_x", "pos_y", "pos_z", "rot_x", "rot_y", "rot_z", "rot_w",
       "return_value", "winning_margin", "return_value_mean",
       "return_value_stddev", "cost" >> \o metrics_to_use_

Tokens ==
    { "START", "PAUSE", "STOP_AND_PRINT", "REINIT", "ABORT_LOOP", "PRINT_DATA" }

\* what one spinOnce may find on the command topic: a token of the table, a
\* string that is none of them, or nothing
Messages == Tokens \cup { "BOGUS", "none" }

(***************************************************************************)
(* Inputs.                                                                 *)
(***************************************************************************)
Views == 0 .. (NumViews - 1)

\* the view the robot stands at when run() starts: a pose outside the view space
StartViews == { NumViews }

\* pose of a view: position (v, 0, 0), orientation the unit quaternion
PoseOf(v) == << v, 0, 0, 0, 0, 0, 1 >>

CostVals == 0 .. MaxCost

\* the weights the constructor reads: the first metric's weight is on the
\* parameter server or not, the others are not (weight 0)
WeightVector(w) == [ i \in 1 .. Len(metrics_to_use_) |-> IF i = 1 THEN w ELSE 0 ]

WeightConfigs == { WeightVector(w) : w \in 0 .. MaxWeight }

\* one value per metric, the first in 1..MaxInfo
InfoVector(x) == [ i \in 1 .. Len(metrics_to_use_) |-> IF i = 1 THEN x ELSE 0 ]

\* what getViewInformation leaves in its output: nothing when the call
\* failed, the service's values otherwise
InfoVecs == { << >> } \cup { InfoVector(x) : x \in 1 .. MaxInfo }

VARIABLES
    \* control flags (constructor, commandCallback)
    start_, pause_, stop_and_print_, reinit_, abort_loop_,
    \* configuration read by the constructor
    cost_weight_, information_weights_,
    \* position of run()
    pc,
    \* number of iterations of the do-while loop begun
    round,
    \* ViewSpace: loaded or not, and the bad flag of each view
    vs_loaded, bad,
    current_view_,
    \* locals of one iteration
    views_to_consider, cost, information, view_returns,
    nbv_index, highest_return, second_highest,
    \* target of the move order of the iteration
    move_target,
    \* data recorder
    planning_data_names_, planning_data_, file,
    \* the retry helper being executed: which one, from where, the result of
    \* its last attempt
    h_kind, h_site, h_ok,
    \* observation of the helper call: attempts, failed attempts, spinOnce
    \* calls, abort flag at entry, attempts made when ABORT_LOOP was
    \* processed inside the call (0: never), outcome at return
    h_attempts, h_fails, h_spins, h_abort_entry, h_abort_at, h_outcome,
    \* observation of the last step: the message its spinOnce processed and
    \* the remote service it called
    cmd, remote,
    \* observation: the iteration in which STOP_AND_PRINT was processed with
    \* no START or PAUSE after it (-1: none)
    stop_round,
    \* observation: the arguments of every saveNBVData call so far (length of
    \* the information vector, additional field names and values)
    calls,
    \* the robot: the view of the last moveTo that reported success (NoView:
    \* none yet)
    moved_to

flags == << start_, pause_, stop_and_print_, reinit_, abort_loop_ >>
config == << cost_weight_, information_weights_ >>
space == << vs_loaded, bad, current_view_ >>
locals == << views_to_consider, cost, information, view_returns,
             nbv_index, highest_return, second_highest >>
recorder == << planning_data_names_, planning_data_, file >>
helper == << h_kind, h_site, h_ok, h_attempts, h_fails, h_spins,
             h_abort_entry, h_abort_at, h_outcome >>

vars == << flags, config, pc, round, space, locals, move_target, recorder,
           helper, cmd, remote, stop_round, calls, moved_to >>

NoFile == [ names |-> << >>, rows |-> << >> ]

Init ==
    /\ start_ = FALSE
    /\ pause_ = FALSE
    /\ stop_and_print_ = FALSE
    /\ reinit_ = FALSE
    /\ abort_loop_ = FALSE
    /\ cost_weight_ = DefaultCostWeight
    /\ information_weights_ \in WeightConfigs
    /\ pc = "wait_start"
    /\ round = 0
    /\ vs_loaded = FALSE
    /\ bad = [ v \in Views |-> FALSE ]
    /\ current_view_ = NoView
    /\ views_to_consider = << >>
    /\ cost = << >>
    /\ information = << >>
    /\ view_returns = << >>
    /\ nbv_index = Uninit
    /\ highest_return = 0
    /\ second_highest = 0
    /\ move_target = NoView
    /\ planning_data_names_ = BaseDataNames
    /\ planning_data_ = << >>
    /\ file = NoFile
    /\ h_kind = "none"
    /\ h_site = "none"
    /\ h_ok = FALSE
    /\ h_attempts = 0
    /\ h_fails = 0
    /\ h_spins = 0
    /\ h_abort_entry = FALSE
    /\ h_abort_at = 0
    /\ h_outcome = "none"
    /\ cmd = "none"
    /\ remote = "none"
    /\ stop_round = -1
    /\ calls = << >>
    /\ moved_to = NoView


(***************************************************************************)
(* ViewSpace (dense_reconstruction/view_space.h; view_planner.cpp only     *)
(* calls it): modelled from the description of the data model.             *)
(***************************************************************************)
RECURSIVE GoodFrom(_, _)
GoodFrom(b, v) ==
    IF v >= NumViews THEN << >>
    ELSE (IF b[v] THEN << >> ELSE << v >>) \o GoodFrom(b, v + 1)

\* the indices of the views not marked bad, in the order of the view space
getGoodViewSpace(b) == GoodFrom(b, 0)

\* the view space with view v marked bad
setBad(b, v) == [ b EXCEPT ![v] = TRUE ]

\* the view at an index of the view space
getView(index) == index

(***************************************************************************)
(* Pure parts of run().                                                    *)
(***************************************************************************)
RECURSIVE WeightedSum(_, _, _)
WeightedSum(weights, informations, i) ==
    IF i > Len(informations) THEN 0
    ELSE weights[i] * informations[i] + WeightedSum(weights, informations, i + 1)

\* calculateReturn that weighs the informations it has weights for when there
\* are more informations than weights
calculateReturn_partial(cw, weights, _cost, _informations) ==
    LET view_return == (-1) * cw * _cost
    IN  IF Len(_informations) > Len(weights)
        THEN view_return
               + WeightedSum(weights, SubSeq(_informations, 1, Len(weights)), 1)
        ELSE view_return + WeightedSum(weights, _informations, 1)

calculateReturn(cw, weights, _cost, _informations) ==
    LET view_return == (-1) * cw * _cost
    IN  IF Len(_informations) > Len(weights)
        THEN view_return
        ELSE view_return + WeightedSum(weights, _informations, 1)

\* the loop over view_returns: entries of invalid views keep the 0 the
\* vector was constructed with
ViewReturns(cw, weights, c, inf) ==
    [ i \in 1 .. Len(c) |->
        IF c[i] = InvalidCost THEN 0
        ELSE calculateReturn(cw, weights, c[i], inf[i]) ]

\* ScanStart with the best return started below every return instead of at 0
ScanStart_lowest ==
    [ nbv_index |-> Uninit,
      highest_return |-> (-1) * DefaultCostWeight * MaxCost - 1,
      second_highest |-> 0 ]

\* the locals of the NBV scan before its loop
ScanStart == [ nbv_index |-> Uninit, highest_return |-> 0, second_highest |-> 0 ]

\* one pass of the NBV loop body for the 0-based index i
ScanStep(c, returns, i, st) ==
    IF c[i + 1] = InvalidCost THEN st
    ELSE IF returns[i + 1] > st.highest_return
         THEN [ nbv_index |-> i,
                second_highest |-> st.highest_return,
                highest_return |-> returns[i + 1] ]
         ELSE st

RECURSIVE ScanFrom(_, _, _, _)
ScanFrom(c, returns, i, st) ==
    IF i >= Len(c) THEN st
    ELSE ScanFrom(c, returns, i + 1, ScanStep(c, returns, i, st))

\* the NBV loop over all candidates
ScanNBV(c, returns) == ScanFrom(c, returns, 0, ScanStart)

\* the always-false stub
terminationCriteriaFulfilled(_return_value, _cost, _information_gain) == FALSE

(***************************************************************************)
(* Data recorder.                                                          *)
(***************************************************************************)
\* the row saveNBVData builds when no additional fields are given (run()
\* gives none).  The mean and the standard deviation of the returns come
\* from st_is::StdError (utils/math.h) in floating point; their two columns
\* are kept with the value 0.
NBVRow(_nbv_index, ret, margin, _cost, _information_gain) ==
    PoseOf(getView(_nbv_index)) \o << ret, margin, 0, 0, _cost >>
        \o _information_gain

\* the row saveNBVData pushed last
LastRow == planning_data_[Len(planning_data_)]

\* getIndexForAdditionalField: the 0-based position of _name among the column
\* names, the names being extended by _name when it is not among them
getIndexForAdditionalField(names, _name) ==
    IF \E i \in 1 .. Len(names) : names[i] = _name
    THEN [ index |-> (CHOOSE i \in 1 .. Len(names) :
                        /\ names[i] = _name
                        /\ \A j \in 1 .. (i - 1) : names[j] # _name) - 1,
           names |-> names ]
    ELSE [ index |-> Len(names), names |-> Append(names, _name) ]

\* std::vector<double>::resize(n) for n above the size: new elements are 0
Resize(row, n) == row \o [ k \in 1 .. (n - Len(row)) |-> 0 ]

\* the loop over the additional fields from its pass i (1-based) on; st holds
\* the column names and nbv_data
RECURSIVE AddFields(_, _, _, _)
AddFields(st, field_names, field_values, i) ==
    IF i > Len(field_names) THEN st
    ELSE LET g == getIndexForAdditionalField(st.names, field_names[i])
             nbv_data == IF Len(st.row) <= g.index
                         THEN Resize(st.row, g.index + 1)
                         ELSE st.row
         IN  AddFields([ names |-> g.names,
                         row |-> [ nbv_data EXCEPT ![g.index + 1] = field_values[i] ] ],
                       field_names, field_values, i + 1)

\* saveNBVData with additional fields: the column names and the row after
\* the call; fields are read only when there are as many names as values
saveNBVData(names, _nbv_index, ret, margin, _cost, _information_gain, field_names, field_values) ==
    LET nbv_data == NBVRow(_nbv_index, ret, margin, _cost, _information_gain)
    IN  IF Len(field_names) = Len(field_values)
        THEN AddFields([ names |-> names, row |-> nbv_data ],
                       field_names, field_values, 1)
        ELSE [ names |-> names, row |-> nbv_data ]

\* what is noted of one saveNBVData call
CallNote(_information_gain, field_names, field_values) ==
    [ informations |-> Len(_information_gain),
      names |-> field_names, values |-> field_values ]

\* the note of a call without additional fields (both pointers null)
NoExtraFields(_information_gain) == CallNote(_information_gain, << >>, << >>)

\* what saveDataToFile writes: the header line and one line per row
WrittenFile == [ names |-> planning_data_names_, rows |-> planning_data_ ]

(***************************************************************************)
(* Command handler.                                                        *)
(***************************************************************************)
\* commandCallback whose STOP_AND_PRINT branch does not reset pause_
commandCallback_nopause(msg) ==
    IF msg = "START" THEN
        /\ start_' = TRUE
        /\ pause_' = FALSE
        /\ stop_and_print_' = FALSE
        /\ UNCHANGED << reinit_, abort_loop_, file >>
    ELSE IF msg = "PAUSE" THEN
        /\ start_' = FALSE
        /\ pause_' = TRUE
        /\ stop_and_print_' = FALSE
        /\ UNCHANGED << reinit_, abort_loop_, file >>
    ELSE IF msg = "STOP_AND_PRINT" THEN
        /\ start_' = FALSE
        /\ stop_and_print_' = TRUE
        /\ UNCHANGED << pause_, reinit_, abort_loop_, file >>
    ELSE IF msg = "REINIT" THEN
        /\ reinit_' = TRUE
        /\ UNCHANGED << start_, pause_, stop_and_print_, abort_loop_, file >>
    ELSE IF msg = "ABORT_LOOP" THEN
        /\ abort_loop_' = TRUE
        /\ UNCHANGED << start_, pause_, stop_and_print_, reinit_, file >>
    ELSE IF msg = "PRINT_DATA" THEN
        /\ file' = WrittenFile
        /\ UNCHANGED << start_, pause_, stop_and_print_, reinit_, abort_loop_ >>
    ELSE
        UNCHANGED << start_, pause_, stop_and_print_, reinit_, abort_loop_, file >>

\* commandCallback whose PAUSE branch does not reset start_
commandCallback_keepstart(msg) ==
    IF msg = "START" THEN
        /\ start_' = TRUE
        /\ pause_' = FALSE
        /\ stop_and_print_' = FALSE
        /\ UNCHANGED << reinit_, abort_loop_, file >>
    ELSE IF msg = "PAUSE" THEN
        /\ pause_' = TRUE
        /\ stop_and_print_' = FALSE
        /\ UNCHANGED << start_, reinit_, abort_loop_, file >>
    ELSE IF msg = "STOP_AND_PRINT" THEN
        /\ start_' = FALSE
        /\ pause_' = FALSE
        /\ stop_and_print_' = TRUE
        /\ UNCHANGED << reinit_, abort_loop_, file >>
    ELSE IF msg = "REINIT" THEN
        /\ reinit_' = TRUE
        /\ UNCHANGED << start_, pause_, stop_and_print_, abort_loop_, file >>
    ELSE IF msg = "ABORT_LOOP" THEN
        /\ abort_loop_' = TRUE
        /\ UNCHANGED << start_, pause_, stop_and_print_, reinit_, file >>
    ELSE IF msg = "PRINT_DATA" THEN
        /\ file' = WrittenFile
        /\ UNCHANGED << start_, pause_, stop_and_print_, reinit_, abort_loop_ >>
    ELSE
        UNCHANGED << start_, pause_, stop_and_print_, reinit_, abort_loop_, file >>

commandCallback(msg) ==
    IF msg = "START" THEN
        /\ start_' = TRUE
        /\ pause_' = FALSE
        /\ stop_and_print_' = FALSE
        /\ UNCHANGED << reinit_, abort_loop_, file >>
    ELSE IF msg = "PAUSE" THEN
        /\ start_' = FALSE
        /\ pause_' = TRUE
        /\ stop_and_print_' = FALSE
        /\ UNCHANGED << reinit_, abort_loop_, file >>
    ELSE IF msg = "STOP_AND_PRINT" THEN
        /\ start_' = FALSE
        /\ pause_' = FALSE
        /\ stop_and_print_' = TRUE
        /\ UNCHANGED << reinit_, abort_loop_, file >>
    ELSE IF msg = "REINIT" THEN
        /\ reinit_' = TRUE
        /\ UNCHANGED << start_, pause_, stop_and_print_, abort_loop_, file >>
    ELSE IF msg = "ABORT_LOOP" THEN
        /\ abort_loop_' = TRUE
        /\ UNCHANGED << start_, pause_, stop_and_print_, reinit_, file >>
    ELSE IF msg = "PRINT_DATA" THEN
        /\ file' = WrittenFile
        /\ UNCHANGED << start_, pause_, stop_and_print_, reinit_, abort_loop_ >>
    ELSE
        UNCHANGED << start_, pause_, stop_and_print_, reinit_, abort_loop_, file >>

\* ros::spinOnce: the pending message, if any, goes to commandCallback
spinOnce(msg) ==
    /\ IF msg = "none"
       THEN UNCHANGED << start_, pause_, stop_and_print_, reinit_, abort_loop_, file >>
       ELSE commandCallback(msg)
    /\ cmd' = msg
    /\ stop_round' = IF msg = "STOP_AND_PRINT" THEN round
                     ELSE IF msg \in { "START", "PAUSE" } THEN -1
                     ELSE stop_round

\* a step without spinOnce: no command is processed
NoSpin ==
    /\ cmd' = "none"
    /\ UNCHANGED << start_, pause_, stop_and_print_, reinit_, stop_round >>

(***************************************************************************)
(* run(): start-up.                                                        *)
(***************************************************************************)
\* while( !start_ ) waitAndSpin();
WaitForStart ==
    /\ pc = "wait_start"
    /\ \E m \in Messages : spinOnce(m)
    /\ pc' = IF start_' THEN "get_view_space" ELSE "wait_start"
    /\ remote' = "none"
    /\ UNCHANGED << calls, moved_to, config, round, space, locals, move_target,
                    planning_data_names_, planning_data_, helper >>

\* getViewSpace(): the condition of the second while loop
GetViewSpace ==
    /\ pc = "get_view_space"
    /\ \E response \in BOOLEAN :
         IF response
         THEN /\ vs_loaded' = TRUE
              /\ bad' = [ v \in Views |-> FALSE ]
              /\ pc' = "get_current_view"
         ELSE /\ UNCHANGED << vs_loaded, bad >>
              /\ pc' = "view_space_spin"
    /\ remote' = "view_space"
    /\ NoSpin
    /\ UNCHANGED << calls, moved_to, abort_loop_, file, config, round, current_view_, locals,
                    move_target, planning_data_names_, planning_data_, helper >>

\* waitAndSpin(2) of the view space loop
ViewSpaceSpin ==
    /\ pc = "view_space_spin"
    /\ \E m \in Messages : spinOnce(m)
    /\ pc' = "get_view_space"
    /\ remote' = "none"
    /\ UNCHANGED << calls, moved_to, config, round, space, locals, move_target,
                    planning_data_names_, planning_data_, helper >>

\* entry of retrieveDataAndWait or moveToAndWait
EnterHelper(kind, site) ==
    /\ h_kind' = kind
    /\ h_site' = site
    /\ h_ok' = FALSE
    /\ h_attempts' = 0
    /\ h_fails' = 0
    /\ h_spins' = 0
    /\ h_abort_entry' = abort_loop_
    /\ h_abort_at' = 0
    /\ h_outcome' = "none"
    /\ pc' = "h_attempt"

\* the helper is left: its locals and the observation of the call end
LeaveHelper ==
    /\ h_kind' = "none"
    /\ h_site' = "none"
    /\ h_ok' = FALSE
    /\ h_attempts' = 0
    /\ h_fails' = 0
    /\ h_spins' = 0
    /\ h_abort_entry' = FALSE
    /\ h_abort_at' = 0
    /\ h_outcome' = "none"

\* getCurrentView(current_view_): the condition of the third while loop;
\* on success run() goes on to retrieveDataAndWait()
GetCurrentView ==
    /\ pc = "get_current_view"
    /\ \E response \in BOOLEAN :
         IF response
         THEN /\ \E v \in StartViews : current_view_' = v
              /\ EnterHelper("retrieve", "init")
         ELSE /\ UNCHANGED << current_view_, helper >>
              /\ pc' = "current_view_spin"
    /\ remote' = "current_view"
    /\ NoSpin
    /\ UNCHANGED << calls, moved_to, abort_loop_, file, config, round, vs_loaded, bad, locals,
                    move_target, planning_data_names_, planning_data_ >>

\* waitAndSpin(2) of the current view loop
CurrentViewSpin ==
    /\ pc = "current_view_spin"
    /\ \E m \in Messages : spinOnce(m)
    /\ pc' = "get_current_view"
    /\ remote' = "none"
    /\ UNCHANGED << calls, moved_to, config, round, space, locals, move_target,
                    planning_data_names_, planning_data_, helper >>

(***************************************************************************)
(* The retry helpers retrieveDataAndWait and moveToAndWait.  Both have the *)
(* same body; h_kind tells which service is called.  A call that failed    *)
(* and a call whose status is not the accepted one (RECEIVED, success) are *)
(* the same to the helper: h_ok is false.  Every call of a service may     *)
(* succeed or fail (moveTo calls through data_retriever_ and               *)
(* getViewInformation through current_view_retriever_; whether such a call *)
(* can succeed is the transport's matter).                                 *)
(***************************************************************************)
\* retrieveData(receive_info) / moveTo(successfully_moved, _target_view)
HelperAttempt ==
    /\ pc = "h_attempt"
    /\ \E ok \in BOOLEAN :
         /\ ~ok => h_fails < MaxAttempts
         /\ h_ok' = ok
         /\ h_fails' = IF ok THEN h_fails ELSE h_fails + 1
         /\ moved_to' = IF ok /\ h_kind = "move" THEN move_target ELSE moved_to
         /\ pc' = IF ok THEN "h_after" ELSE "h_spin"
    /\ h_attempts' = h_attempts + 1
    /\ remote' = IF h_kind = "move" THEN "move_to" ELSE "retrieve_data"
    /\ NoSpin
    /\ UNCHANGED << calls, abort_loop_, file, config, round, space, locals, move_target,
                    planning_data_names_, planning_data_, h_kind, h_site,
                    h_spins, h_abort_entry, h_abort_at, h_outcome >>

\* HelperSpin with a loop condition that ends the loop after a failed attempt
HelperSpin_giveup ==
    /\ pc = "h_spin"
    /\ \E m \in Messages :
         /\ spinOnce(m)
         /\ h_abort_at' = IF m = "ABORT_LOOP" THEN h_attempts ELSE h_abort_at
    /\ h_spins' = h_spins + 1
    /\ pc' = "h_after"
    /\ remote' = "none"
    /\ UNCHANGED << calls, moved_to, config, round, space, locals, move_target,
                    planning_data_names_, planning_data_, h_kind, h_site, h_ok,
                    h_attempts, h_fails, h_abort_entry, h_outcome >>

\* the sleep and ros::spinOnce() after a failed attempt, then the loop
\* condition (the attempt failed, so it is !abort_loop_)
HelperSpin ==
    /\ pc = "h_spin"
    /\ \E m \in Messages :
         /\ spinOnce(m)
         /\ h_abort_at' = IF m = "ABORT_LOOP" THEN h_attempts ELSE h_abort_at
    /\ h_spins' = h_spins + 1
    /\ pc' = IF ~abort_loop_' THEN "h_attempt" ELSE "h_after"
    /\ remote' = "none"
    /\ UNCHANGED << calls, moved_to, config, round, space, locals, move_target,
                    planning_data_names_, planning_data_, h_kind, h_site, h_ok,
                    h_attempts, h_fails, h_abort_entry, h_outcome >>

\* HelperReturn without the abort_loop_ = false
HelperReturn_keepflag ==
    /\ pc = "h_after"
    /\ h_outcome' = IF abort_loop_ THEN "aborted" ELSE "success"
    /\ pc' = "h_ret"
    /\ remote' = "none"
    /\ NoSpin
    /\ UNCHANGED << calls, moved_to, abort_loop_, file, config, round, space, locals, move_target,
                    planning_data_names_, planning_data_, h_kind, h_site, h_ok,
                    h_attempts, h_fails, h_spins, h_abort_entry, h_abort_at >>

\* if( abort_loop_ ) { abort_loop_ = false; } else { ... } and the return
HelperReturn ==
    /\ pc = "h_after"
    /\ IF abort_loop_
       THEN /\ abort_loop_' = FALSE
            /\ h_outcome' = "aborted"
       ELSE /\ UNCHANGED abort_loop_
            /\ h_outcome' = "success"
    /\ pc' = "h_ret"
    /\ remote' = "none"
    /\ NoSpin
    /\ UNCHANGED << calls, moved_to, file, config, round, space, locals, move_target,
                    planning_data_names_, planning_data_, h_kind, h_site, h_ok,
                    h_attempts, h_fails, h_spins, h_abort_entry, h_abort_at >>

\* AfterInitialData for a loop that tests stop_and_print_ before its body
AfterInitialData_testfirst ==
    /\ pc = "h_ret"
    /\ h_kind = "retrieve"
    /\ h_site = "init"
    /\ LeaveHelper
    /\ IF stop_and_print_
       THEN pc' = "save" /\ UNCHANGED round
       ELSE pc' = "pause1" /\ round' = 1
    /\ remote' = "none"
    /\ NoSpin
    /\ UNCHANGED << calls, moved_to, abort_loop_, file, config, space, locals, move_target,
                    planning_data_names_, planning_data_ >>

\* back in run() after the initial retrieveDataAndWait(): the loop is entered
AfterInitialData ==
    /\ pc = "h_ret"
    /\ h_kind = "retrieve"
    /\ h_site = "init"
    /\ LeaveHelper
    /\ pc' = "pause1"
    /\ round' = 1
    /\ remote' = "none"
    /\ NoSpin
    /\ UNCHANGED << calls, moved_to, abort_loop_, file, config, space, locals, move_target,
                    planning_data_names_, planning_data_ >>

\* back in run() after moveToAndWait(nbv): retrieveDataAndWait()
AfterMove ==
    /\ pc = "h_ret"
    /\ h_kind = "move"
    /\ EnterHelper("retrieve", "loop")
    /\ remote' = "none"
    /\ NoSpin
    /\ UNCHANGED << calls, moved_to, abort_loop_, file, config, round, space, locals, move_target,
                    planning_data_names_, planning_data_ >>

\* AfterNewData for a loop that an aborted data retrieval ends
AfterNewData_abortends ==
    /\ pc = "h_ret"
    /\ h_kind = "retrieve"
    /\ h_site = "loop"
    /\ LeaveHelper
    /\ pc' = IF h_outcome = "aborted" THEN "save" ELSE "end_spin"
    /\ remote' = "none"
    /\ NoSpin
    /\ UNCHANGED << calls, moved_to, abort_loop_, file, config, round, space, locals, move_target,
                    planning_data_names_, planning_data_ >>

\* back in run() after the retrieveDataAndWait() of the loop
AfterNewData ==
    /\ pc = "h_ret"
    /\ h_kind = "retrieve"
    /\ h_site = "loop"
    /\ LeaveHelper
    /\ pc' = "end_spin"
    /\ remote' = "none"
    /\ NoSpin
    /\ UNCHANGED << calls, moved_to, abort_loop_, file, config, round, space, locals, move_target,
                    planning_data_names_, planning_data_ >>

(***************************************************************************)
(* run(): the planning loop.                                               *)
(***************************************************************************)
PausePoints == { "pause1", "pause2", "pause3" }

\* where run() goes on after each of its three pauseIfRequested() calls
AfterPause(p) ==
    IF p = "pause1" THEN "cost_phase"
    ELSE IF p = "pause2" THEN "info_phase"
    ELSE "select"

\* pauseIfRequested that sleeps and spins once instead of looping
pauseIfRequested_once ==
    /\ pc \in PausePoints
    /\ IF pause_
       THEN /\ \E m \in Messages : spinOnce(m)
            /\ pc' = AfterPause(pc)
       ELSE /\ NoSpin
            /\ UNCHANGED << abort_loop_, file >>
            /\ pc' = AfterPause(pc)
    /\ remote' = "none"
    /\ UNCHANGED << calls, moved_to, config, round, space, locals, move_target,
                    planning_data_names_, planning_data_, helper >>

\* pauseIfRequested(): returns at once when pause_ is false; otherwise one
\* pass of do { sleep; spinOnce } while( pause_ )
pauseIfRequested ==
    /\ pc \in PausePoints
    /\ IF pause_
       THEN /\ \E m \in Messages : spinOnce(m)
            /\ pc' = IF pause_' THEN pc ELSE AfterPause(pc)
       ELSE /\ NoSpin
            /\ UNCHANGED << abort_loop_, file >>
            /\ pc' = AfterPause(pc)
    /\ remote' = "none"
    /\ UNCHANGED << calls, moved_to, config, round, space, locals, move_target,
                    planning_data_names_, planning_data_, helper >>

\* the start view handed to movementCost( cost_description, current_view_,
\* target )
CostFrom == current_view_

\* what movementCost leaves in cost_description: an exception tag and a
\* cost (run() does not read the bool movementCost returns)
CostDescriptions ==
    [ exception : { "NONE" }, cost : CostVals ]
        \cup [ exception : { "OTHER" }, cost : { 0 } ]

\* determineAvailableViewSpace and the movement cost loop
CostPhase ==
    /\ pc = "cost_phase"
    /\ LET vtc == getGoodViewSpace(bad)
       IN  \E cd \in [ 1 .. Len(vtc) -> CostDescriptions ] :
             /\ views_to_consider' = vtc
             /\ cost' = [ i \in 1 .. Len(vtc) |->
                            IF cd[i].exception # "NONE" THEN InvalidCost
                            ELSE cd[i].cost ]
             /\ bad' = [ v \in Views |->
                           IF \E i \in 1 .. Len(vtc) :
                                vtc[i] = v /\ cd[i].exception # "NONE"
                           THEN setBad(bad, v)[v] ELSE bad[v] ]
             /\ remote' = IF Len(vtc) > 0 THEN "cost" ELSE "none"
    /\ information' = << >>
    /\ view_returns' = << >>
    /\ nbv_index' = Uninit
    /\ highest_return' = 0
    /\ second_highest' = 0
    /\ pc' = "pause2"
    /\ NoSpin
    /\ UNCHANGED << calls, moved_to, abort_loop_, file, config, round, vs_loaded, current_view_,
                    move_target, planning_data_names_, planning_data_, helper >>

\* the information gain loop: views with cost -1 are skipped and keep the
\* empty vector, getViewInformation fills the others or fails
InfoPhase ==
    /\ pc = "info_phase"
    /\ \E inf \in [ 1 .. Len(cost) -> InfoVecs ] :
         /\ \A i \in 1 .. Len(cost) : cost[i] = InvalidCost => inf[i] = << >>
         /\ information' = inf
    /\ remote' = IF \E i \in 1 .. Len(cost) : cost[i] # InvalidCost
                 THEN "info" ELSE "none"
    /\ pc' = "pause3"
    /\ NoSpin
    /\ UNCHANGED << calls, moved_to, abort_loop_, file, config, round, space, views_to_consider,
                    cost, view_returns, nbv_index, highest_return,
                    second_highest, move_target, planning_data_names_,
                    planning_data_, helper >>

\* the returns and the NBV scan
SelectNBV ==
    /\ pc = "select"
    /\ LET returns == ViewReturns(cost_weight_, information_weights_,
                                  cost, information)
           st == ScanNBV(cost, returns)
       IN  /\ view_returns' = returns
           /\ nbv_index' = st.nbv_index
           /\ highest_return' = st.highest_return
           /\ second_highest' = st.second_highest
    /\ pc' = "record"
    /\ remote' = "none"
    /\ NoSpin
    /\ UNCHANGED << calls, moved_to, abort_loop_, file, config, round, space, views_to_consider,
                    cost, information, move_target, planning_data_names_,
                    planning_data_, helper >>

\* the values a read of nbv_index can give: its value once assigned, any
\* unsigned value otherwise (NumViews stands for all those beyond the view
\* space)
NbvIndexRead == IF nbv_index = Uninit THEN 0 .. NumViews ELSE { nbv_index }

\* the data storage block: return_info and saveNBVData(nbv_index, return_info,
\* cost[nbv_index], information[nbv_index]).  cost[i] and information[i]
\* beyond the vectors' ends are reads outside them: any value, or a crash.
RecordRow ==
    /\ pc = "record"
    /\ \E idx \in NbvIndexRead :
         \/ /\ idx < NumViews
            /\ \E c \in CostVals \cup { InvalidCost }, inf \in InfoVecs :
                 /\ idx < Len(cost) => c = cost[idx + 1] /\ inf = information[idx + 1]
                 /\ planning_data_' =
                      Append(planning_data_,
                             NBVRow(idx, highest_return,
                                    highest_return - second_highest, c, inf))
                 /\ calls' = Append(calls, NoExtraFields(inf))
            /\ nbv_index' = idx
            /\ pc' = "decide"
         \/ /\ idx >= Len(cost)
            /\ pc' = "crashed"
            /\ UNCHANGED << planning_data_, nbv_index, calls >>
    /\ remote' = "none"
    /\ NoSpin
    /\ UNCHANGED << moved_to, abort_loop_, file, config, round, space, views_to_consider,
                    cost, information, view_returns, highest_return,
                    second_highest, move_target, planning_data_names_, helper >>

\* the termination check and, as it fails, View nbv = getView(nbv_index) and
\* the entry of moveToAndWait(nbv).  The locals of the iteration are not read
\* after this point.
DecideMove ==
    /\ pc = "decide"
    /\ IF ~terminationCriteriaFulfilled(highest_return, LastRow[12],
                                        SubSeq(LastRow, 13, Len(LastRow)))
       THEN /\ move_target' = getView(nbv_index)
            /\ EnterHelper("move", "loop")
       ELSE /\ pc' = "save"
            /\ UNCHANGED << move_target, helper >>
    /\ views_to_consider' = << >>
    /\ cost' = << >>
    /\ information' = << >>
    /\ view_returns' = << >>
    /\ nbv_index' = Uninit
    /\ highest_return' = 0
    /\ second_highest' = 0
    /\ remote' = "none"
    /\ NoSpin
    /\ UNCHANGED << calls, moved_to, abort_loop_, file, config, round, space,
                    planning_data_names_, planning_data_ >>

\* EndOfIteration for a loop that waits for START again when start_ is false
EndOfIteration_waitstart ==
    /\ pc = "end_spin"
    /\ \E m \in Messages : spinOnce(m)
    /\ IF stop_and_print_'
       THEN /\ pc' = "save"
            /\ UNCHANGED round
       ELSE /\ round < MaxRounds
            /\ pc' = IF start_' THEN "pause1" ELSE "wait_start"
            /\ round' = round + 1
    /\ remote' = "none"
    /\ UNCHANGED << calls, moved_to, config, space, locals, move_target,
                    planning_data_names_, planning_data_, helper >>

\* ros::spinOnce() at the end of the loop body and while( !stop_and_print_ )
EndOfIteration ==
    /\ pc = "end_spin"
    /\ \E m \in Messages : spinOnce(m)
    /\ IF stop_and_print_'
       THEN /\ pc' = "save"
            /\ UNCHANGED round
       ELSE /\ round < MaxRounds
            /\ pc' = "pause1"
            /\ round' = round + 1
    /\ remote' = "none"
    /\ UNCHANGED << calls, moved_to, config, space, locals, move_target,
                    planning_data_names_, planning_data_, helper >>

\* saveDataToFile() after the loop
SaveAndExit ==
    /\ pc = "save"
    /\ file' = WrittenFile
    /\ pc' = "done"
    /\ remote' = "none"
    /\ NoSpin
    /\ UNCHANGED << calls, moved_to, abort_loop_, config, round, space, locals, move_target,
                    planning_data_names_, planning_data_, helper >>

Next ==
    \/ WaitForStart
    \/ GetViewSpace
    \/ ViewSpaceSpin
    \/ GetCurrentView
    \/ CurrentViewSpin
    \/ HelperAttempt
    \/ HelperSpin
    \/ HelperReturn
    \/ AfterInitialData
    \/ AfterMove
    \/ AfterNewData
    \/ pauseIfRequested
    \/ CostPhase
    \/ InfoPhase
    \/ SelectNBV
    \/ RecordRow
    \/ DecideMove
    \/ EndOfIteration
    \/ SaveAndExit

Spec == Init /\ [][Next]_vars

\* run() is a running thread: it takes its next step as long as it has one
SpecFair == Spec /\ WF_vars(Next)

(***************************************************************************)
(* The data recorder on its own: saveNBVData with additional fields and    *)
(* saveDataToFile, called in any order on a constructed ViewPlanner (run() *)
(* itself gives saveNBVData no additional fields).                         *)
(***************************************************************************)
\* rows the recorder model records
MaxRows == 2
\* additional fields of one saveNBVData call: 0..MaxFields
MaxFields == 2
\* values of additional fields: 1..MaxFieldValue
MaxFieldValue == 1

FieldNames == { "A", "B", "C" }

\* lists of up to MaxFields different field names
FieldNameLists ==
    UNION { { f \in [ 1 .. n -> FieldNames ] :
                \A i, j \in 1 .. n : f[i] = f[j] => i = j } : n \in 0 .. MaxFields }

\* the additional fields of one call: one value per name, or names and no
\* value at all
ExtraFields ==
    UNION { { [ names |-> f, values |-> v ] :
                v \in [ 1 .. Len(f) -> 1 .. MaxFieldValue ] \cup { << >> } } :
            f \in FieldNameLists }

\* a ViewPlanner as constructed, run() not called, at position p; the
\* configuration, the view space and the vectors of a round are left open
Constructed(p) ==
    /\ pc = p
    /\ start_ = FALSE
    /\ pause_ = FALSE
    /\ stop_and_print_ = FALSE
    /\ reinit_ = FALSE
    /\ abort_loop_ = FALSE
    /\ round = 0
    /\ current_view_ = NoView
    /\ views_to_consider = << >>
    /\ nbv_index = Uninit
    /\ highest_return = 0
    /\ second_highest = 0
    /\ move_target = NoView
    /\ planning_data_names_ = BaseDataNames
    /\ planning_data_ = << >>
    /\ file = NoFile
    /\ h_kind = "none"
    /\ h_site = "none"
    /\ h_ok = FALSE
    /\ h_attempts = 0
    /\ h_fails = 0
    /\ h_spins = 0
    /\ h_abort_entry = FALSE
    /\ h_abort_at = 0
    /\ h_outcome = "none"
    /\ cmd = "none"
    /\ remote = "none"
    /\ stop_round = -1
    /\ calls = << >>
    /\ moved_to = NoView

RecorderInit ==
    /\ Constructed("recorder")
    /\ cost_weight_ = DefaultCostWeight
    /\ information_weights_ = WeightVector(0)
    /\ vs_loaded = TRUE
    /\ bad = [ v \in Views |-> FALSE ]
    /\ cost = << >>
    /\ information = << >>
    /\ view_returns = << >>

\* one call saveNBVData(_nbv_index, return_info, _cost, _information_gain,
\* &names, &values)
CallSaveNBVData ==
    /\ pc = "recorder"
    /\ Len(planning_data_) < MaxRows
    /\ \E v \in Views, inf \in InfoVecs, f \in ExtraFields :
         LET after == saveNBVData(planning_data_names_, v, 0, 0, 0, inf,
                                  f.names, f.values)
         IN  /\ planning_data_names_' = after.names
             /\ planning_data_' = Append(planning_data_, after.row)
             /\ calls' = Append(calls, CallNote(inf, f.names, f.values))
    /\ UNCHANGED << flags, config, pc, round, space, locals, move_target, file,
                    helper, cmd, remote, stop_round, moved_to >>

\* one call saveDataToFile()
CallSaveDataToFile ==
    /\ pc = "recorder"
    /\ file' = WrittenFile
    /\ UNCHANGED << flags, config, pc, round, space, locals, move_target,
                    planning_data_names_, planning_data_, helper, cmd, remote,
                    stop_round, calls, moved_to >>

RecorderNext ==
    \/ CallSaveNBVData
    \/ CallSaveDataToFile

SpecRecorder == RecorderInit /\ [][RecorderNext]_vars

(***************************************************************************)
(* calculateReturn on its own: one call on a constructed ViewPlanner, for  *)
(* every cost weight, weight vector, cost and information vector.          *)
(***************************************************************************)
\* length of the weight and of the information vector: 0..MaxVectorLen
MaxVectorLen == 2
\* weights and information values: -MaxAbsValue..MaxAbsValue
MaxAbsValue == 1
\* cost_weight_: 0..MaxCostWeight
MaxCostWeight == 2

\* vectors of up to MaxVectorLen values
Vectors ==
    UNION { [ 1 .. n -> (-MaxAbsValue) .. MaxAbsValue ] : n \in 0 .. MaxVectorLen }

ReturnInit ==
    /\ Constructed("calc")
    /\ cost_weight_ \in 0 .. MaxCostWeight
    /\ information_weights_ \in Vectors
    /\ vs_loaded = FALSE
    /\ bad = [ v \in Views |-> FALSE ]
    /\ \E c \in CostVals \cup { InvalidCost } : cost = << c >>
    /\ \E inf \in Vectors : information = << inf >>
    /\ view_returns = << 0 >>

\* view_returns[0] = calculateReturn( cost[0], information[0] )
CallCalculateReturn ==
    /\ pc = "calc"
    /\ view_returns' = << calculateReturn(cost_weight_, information_weights_,
                                          cost[1], information[1]) >>
    /\ pc' = "calc_done"
    /\ UNCHANGED << flags, config, round, space, views_to_consider, cost,
                    information, nbv_index, highest_return, second_highest,
                    move_target, recorder, helper, cmd, remote, stop_round,
                    calls, moved_to >>

ReturnNext == CallCalculateReturn

SpecReturn == ReturnInit /\ [][ReturnNext]_vars

(***************************************************************************)
(* Properties of the selection (claims C1, C2, C3).                        *)
(***************************************************************************)
\* the candidates of the round whose cost evaluation gave a cost (1-based)
Viable == { i \in 1 .. Len(cost) : cost[i] # InvalidCost }

\* the greatest return among the candidates S
MaxReturn(S) ==
    CHOOSE r \in { view_returns[i] : i \in S } :
        \A j \in S : view_returns[j] <= r

\* the lowest candidate of Viable with the greatest return
BestViable ==
    CHOOSE i \in Viable :
        /\ view_returns[i] = MaxReturn(Viable)
        /\ \A j \in Viable : view_returns[j] = MaxReturn(Viable) => i <= j

\* best minus second-best return of the round, 0 with fewer than two
\* viable candidates
TrueMargin ==
    IF Cardinality(Viable) < 2 THEN 0
    ELSE MaxReturn(Viable) - MaxReturn(Viable \ { BestViable })

\* the winning_margin column of a row
MarginOf(row) == row[9]

\* C1: after the scan of a round with at least one viable candidate,
\* nbv_index is the lowest viable candidate with the greatest return among
\* the viable candidates.
C1_SelectsBestViable ==
    (pc = "record" /\ Viable # {}) => nbv_index = BestViable - 1

\* C1, as far as the code goes: the same when some viable return is above 0.
C1_SelectsBestPositive ==
    (pc = "record" /\ Viable # {} /\ MaxReturn(Viable) > 0)
        => nbv_index = BestViable - 1

\* C2: the margin recorded for a round is the best minus the second-best
\* return of its viable candidates, and 0 with fewer than two of them.
C2_MarginIsBestMinusSecond ==
    pc = "decide" => MarginOf(LastRow) = TrueMargin

\* C3: the winning margin of every recorded row is at least 0.
C3_MarginNonNegative ==
    \A r \in 1 .. Len(planning_data_) : MarginOf(planning_data_[r]) >= 0

\* a second row was recorded, the round had two viable candidates with
\* different returns and its margin is above 0
C3_Witness ==
    /\ pc = "decide"
    /\ Len(planning_data_) = 2
    /\ Cardinality(Viable) = 2
    /\ view_returns[1] # view_returns[2]
    /\ MarginOf(LastRow) > 0

(***************************************************************************)
(* Properties of the bad views (claim C4).                                 *)
(***************************************************************************)
\* a step that builds the candidate list of a round takes no view that was
\* bad before the step
CandidatesWereGood ==
    pc = "cost_phase" =>
        \A i \in 1 .. Len(views_to_consider') : ~bad[views_to_consider'[i]]

\* a candidate whose cost evaluation reported an exception is bad and has
\* cost -1 in its round
ExceptionMarksBad ==
    \A i \in 1 .. Len(cost) :
        cost[i] = InvalidCost => bad[views_to_consider[i]]

\* the views with information, the selected view and the target of the move
\* order are not bad views
BadViewUnused ==
    /\ \A i \in 1 .. Len(information) :
         information[i] # << >> => ~bad[views_to_consider[i]]
    /\ (h_kind = "move" /\ move_target \in Views) => ~bad[move_target]

\* C4: a view whose cost evaluation reported an exception is marked bad with
\* cost -1, is in no later candidate list, and is not information-evaluated,
\* selected or moved to afterwards.
C4_BadViewExcluded ==
    /\ [][CandidatesWereGood]_vars
    /\ [](ExceptionMarksBad /\ BadViewUnused)

\* C4, the part about the candidate list alone
C4_BadViewNotCandidate ==
    /\ [][CandidatesWereGood]_vars
    /\ []ExceptionMarksBad

(***************************************************************************)
(* Properties of the retry helpers (claims C5, C6, C7).  pc = "h_ret" is   *)
(* the return of retrieveDataAndWait or moveToAndWait.                     *)
(***************************************************************************)
\* C5: a helper call during which the abort flag was never set (not at its
\* entry, no ABORT_LOOP in its spinOnce calls) returns after a successful
\* attempt, with one attempt more than failed attempts, one spinOnce per
\* failed attempt, and the success outcome.
C5_RetryUntilSuccess ==
    (pc = "h_ret" /\ ~h_abort_entry /\ h_abort_at = 0) =>
        /\ h_ok
        /\ h_attempts = h_fails + 1
        /\ h_spins = h_fails
        /\ h_outcome = "success"

\* the retrieveDataAndWait of the loop returns with success after
\* MaxAttempts failed attempts
C5_Witness ==
    /\ pc = "h_ret"
    /\ h_kind = "retrieve"
    /\ h_site = "loop"
    /\ ~h_abort_entry
    /\ h_abort_at = 0
    /\ h_fails = MaxAttempts
    /\ h_attempts = MaxAttempts + 1
    /\ h_outcome = "success"

\* C6: a helper call returns aborted only when ABORT_LOOP was processed in
\* one of its own spinOnce calls: a call during which none was processed
\* ends with a successful attempt, and a call whose last attempt succeeded
\* returns success.
C6_AbortOneShot ==
    pc = "h_ret" =>
        /\ h_abort_at = 0 => h_ok
        /\ h_ok => h_outcome = "success"

\* C7: at every return of a helper the abort flag is false, and when
\* ABORT_LOOP was processed after failed attempt k the helper made no
\* further attempt and returns aborted.
C7_AbortStopsRetry ==
    pc = "h_ret" =>
        /\ ~abort_loop_
        /\ h_abort_at > 0 =>
             /\ h_attempts = h_abort_at
             /\ ~h_ok
             /\ h_outcome = "aborted"

\* moveToAndWait returns aborted: ABORT_LOOP came after its second failed
\* attempt and the flag was not set before
C7_Witness ==
    /\ pc = "h_ret"
    /\ h_kind = "move"
    /\ ~h_abort_entry
    /\ h_abort_at = 2
    /\ h_attempts = 2
    /\ h_outcome = "aborted"

(***************************************************************************)
(* Properties of the command handler (claim C8).  cmd' is the message the  *)
(* step's spinOnce handed to commandCallback ("none": the step processed   *)
(* no message).                                                            *)
(***************************************************************************)
\* C8: a step that processes a command changes the flags as the command
\* table says: START, PAUSE and STOP_AND_PRINT set (start_, pause_,
\* stop_and_print_); REINIT, ABORT_LOOP, PRINT_DATA and any other string leave
\* these three unchanged; REINIT changes only reinit_, ABORT_LOOP only
\* abort_loop_, and another string changes no flag; none changes the rows.
C8_CommandTable ==
    [][ /\ cmd' = "START" =>
             start_' /\ ~pause_' /\ ~stop_and_print_'
        /\ cmd' = "PAUSE" =>
             ~start_' /\ pause_' /\ ~stop_and_print_'
        /\ cmd' = "STOP_AND_PRINT" =>
             ~start_' /\ ~pause_' /\ stop_and_print_'
        /\ cmd' \in { "REINIT", "ABORT_LOOP", "PRINT_DATA", "BOGUS" } =>
             UNCHANGED << start_, pause_, stop_and_print_ >>
        /\ cmd' = "REINIT" =>
             reinit_' /\ UNCHANGED << abort_loop_, recorder >>
        /\ cmd' = "ABORT_LOOP" =>
             abort_loop_' /\ UNCHANGED << reinit_, recorder >>
        /\ cmd' = "BOGUS" =>
             UNCHANGED << flags, recorder >>
        /\ cmd' # "none" =>
             UNCHANGED << planning_data_names_, planning_data_ >>
      ]_vars

\* STOP_AND_PRINT was just processed while the run was paused in its second
\* iteration, with the reinit and abort flags set before
C8_Witness ==
    /\ cmd = "STOP_AND_PRINT"
    /\ stop_and_print_ /\ ~pause_ /\ ~start_
    /\ reinit_ /\ abort_loop_
    /\ pc = "cost_phase"
    /\ round = 2

C10_PauseSuspends ==
    [][ (pc \in PausePoints /\ pause_) =>
          /\ remote' = "none"
          /\ UNCHANGED << planning_data_, move_target, locals, space, helper >>
          /\ pause_' => pc' = pc
          /\ ~pause_' =>
               /\ cmd' \in { "START", "STOP_AND_PRINT" }
               /\ pc' = AfterPause(pc)
      ]_vars

\* the second iteration was paused at its start and START has just resumed
\* it; the row of the first iteration is there
C10_Witness ==
    /\ pc = "cost_phase"
    /\ cmd = "START"
    /\ round = 2
    /\ Len(planning_data_) = 1

(***************************************************************************)
(* Properties of the data recorder (claim C11), under SpecRecorder.        *)
(***************************************************************************)
\* the fields a call supplied, in the order given
Supplied(call) ==
    IF Len(call.names) = Len(call.values) THEN call.names ELSE << >>

\* seq followed by those of names[i..] that are not yet in it
RECURSIVE AppendNew(_, _, _)
AppendNew(seq, names, i) ==
    IF i > Len(names) THEN seq
    ELSE AppendNew(IF \E k \in 1 .. Len(seq) : seq[k] = names[i]
                   THEN seq ELSE Append(seq, names[i]),
                   names, i + 1)

\* the field names supplied by the first k calls, in order of first appearance
RECURSIVE FirstAppearance(_, _)
FirstAppearance(cs, k) ==
    IF k = 0 THEN << >>
    ELSE AppendNew(FirstAppearance(cs, k - 1), Supplied(cs[k]), 1)

\* the value a call supplied for a field, 0 when it supplied none
ValueOf(call, name) ==
    IF \E i \in 1 .. Len(Supplied(call)) : call.names[i] = name
    THEN call.values[CHOOSE i \in 1 .. Len(call.names) : call.names[i] = name]
    ELSE 0

\* every row of the written file was recorded with one value per metric
FullInformation ==
    \A r \in 1 .. Len(file.rows) : calls[r].informations = Len(metrics_to_use_)

\* C11: in a written file whose rows were recorded with one information value
\* per metric, the columns are the base columns followed by the additional
\* fields in order of first appearance, every row has one value for every
\* column, and the value of an additional column in a row is the one the
\* row's call supplied, 0 when it supplied none.
C11_BackFill ==
    (pc = "recorder" /\ file # NoFile /\ FullInformation) =>
        /\ file.names =
             BaseDataNames \o FirstAppearance(calls, Len(file.rows))
        /\ \A r \in 1 .. Len(file.rows) : Len(file.rows[r]) = Len(file.names)
        /\ \A r \in 1 .. Len(file.rows) :
             \A col \in (Len(BaseDataNames) + 1) .. Len(file.names) :
                file.rows[r][col] = ValueOf(calls[r], file.names[col])

\* C11, as far as the code goes: the columns are in order of first
\* appearance, no row is longer than the header, and every additional column
\* a row reaches holds the value its call supplied, 0 when it supplied none.
C11_RowsUpToOwnLength ==
    (pc = "recorder" /\ file # NoFile /\ FullInformation) =>
        /\ file.names =
             BaseDataNames \o FirstAppearance(calls, Len(file.rows))
        /\ \A r \in 1 .. Len(file.rows) : Len(file.rows[r]) <= Len(file.names)
        /\ \A r \in 1 .. Len(file.rows) :
             \A col \in (Len(BaseDataNames) + 1) .. Len(file.rows[r]) :
                file.rows[r][col] = ValueOf(calls[r], file.names[col])

\* the field sets {A,B} then {A,C} were recorded and written
C11_Example ==
    /\ pc = "recorder"
    /\ Len(file.rows) = 2
    /\ FullInformation
    /\ calls[1].names = << "A", "B" >> /\ calls[1].values = << 1, 1 >>
    /\ calls[2].names = << "A", "C" >> /\ calls[2].values = << 1, 1 >>

(***************************************************************************)
(* Properties of the loop's exits and of the retries (claims C12, C13).    *)
(***************************************************************************)
\* run() is inside the do-while loop
InLoop == round >= 1 /\ pc \notin { "save", "done", "crashed" }

\* the step goes from inside the loop to the code after it
LeavesLoop == InLoop /\ pc' = "save"

C13_AllRetriesAbortable ==
    [][ (pc \in { "view_space_spin", "current_view_spin", "h_spin" }
            /\ cmd' = "ABORT_LOOP")
          => pc' \notin { "get_view_space", "get_current_view", "h_attempt" }
      ]_vars

\* C13, as far as the code goes: the two retry helpers
C13_HelpersAbortable ==
    [][ (pc = "h_spin" /\ cmd' = "ABORT_LOOP") => pc' # "h_attempt" ]_vars

(***************************************************************************)
(* Properties of the phases of run() (claim C14).                          *)
(***************************************************************************)
\* the phase of a position of run(): 0 WaitingForStart, 1 AcquiringViewSpace,
\* 2 AcquiringCurrentView, 3 Planning (from the initial data retrieval to the
\* end of the loop), 4 Terminated
PhaseOf(p) ==
    IF p = "wait_start" THEN 0
    ELSE IF p \in { "get_view_space", "view_space_spin" } THEN 1
    ELSE IF p \in { "get_current_view", "current_view_spin" } THEN 2
    ELSE IF p \in { "save", "done", "crashed" } THEN 4
    ELSE 3

\* C14: every step keeps the phase or goes to the next one; WaitingForStart
\* is left only by a step that processes START, and no step that starts in it
\* calls a remote service; the current view is requested only with the view
\* space loaded, data is retrieved only with the current view fetched, costs
\* are evaluated only after the initial retrieveDataAndWait returned (the
\* loop is entered); once left, WaitingForStart is never entered again.
C14_PhaseOrder ==
    [][ /\ PhaseOf(pc') \in { PhaseOf(pc), PhaseOf(pc) + 1 }
        /\ (pc = "wait_start" /\ pc' # "wait_start") => cmd' = "START"
        /\ pc = "wait_start" => remote' = "none"
        /\ remote' = "current_view" => vs_loaded
        /\ remote' = "retrieve_data" => (vs_loaded /\ current_view_ # NoView)
        /\ remote' = "cost" => (round >= 1 /\ current_view_ # NoView)
        /\ pc # "wait_start" => pc' # "wait_start"
      ]_vars

\* the second iteration is paused at its start: PAUSE was processed after
\* the start, start_ is false, and run() is in Planning
C14_Witness ==
    /\ pc = "pause1"
    /\ round = 2
    /\ pause_ /\ ~start_
    /\ cmd = "PAUSE"

(***************************************************************************)
(* Properties of a round without viable candidate (claim C15).             *)
(***************************************************************************)
\* C15: in a round in which no candidate is viable, the step after the scan
\* records no row and does not go on to the move, and no move is ordered.
C15_NoViableIsError ==
    [][ /\ (pc = "record" /\ Viable = {}) =>
              (planning_data_' = planning_data_ /\ pc' # "decide")
        /\ (pc = "decide" /\ Viable = {}) =>
              (move_target' = move_target /\ h_kind' # "move")
      ]_vars

(***************************************************************************)
(* Properties of calculateReturn (claim C16), under SpecReturn.            *)
(***************************************************************************)
\* w[1]*x[1] + ... + w[n]*x[n]
RECURSIVE DotUpTo(_, _, _)
DotUpTo(w, x, n) ==
    IF n = 0 THEN 0 ELSE DotUpTo(w, x, n - 1) + w[n] * x[n]

\* -costWeight*cost
CostOnlyTerm == 0 - cost_weight_ * cost[1]

\* C16: the return is the cost-only term plus the weighted sum of the
\* informations when there are at most as many informations as weights (the
\* cost-only term alone for no information), and the cost-only term alone
\* when there are more informations than weights.
C16_ReturnFormula ==
    pc = "calc_done" =>
        view_returns[1] =
            IF Len(information[1]) <= Len(information_weights_)
            THEN CostOnlyTerm
                   + DotUpTo(information_weights_, information[1],
                             Len(information[1]))
            ELSE CostOnlyTerm

\* a call with more informations than weights whose first information has a
\* weight and would have counted: the return is the cost-only term
C16_Witness ==
    /\ pc = "calc_done"
    /\ Len(information[1]) > Len(information_weights_)
    /\ Len(information_weights_) >= 1
    /\ information_weights_[1] * information[1][1] # 0
    /\ cost_weight_ * cost[1] # 0
    /\ view_returns[1] = CostOnlyTerm

(***************************************************************************)
(* Properties of the view recorded and moved to (claim C17) and of the     *)
(* start view of the cost evaluation (claim C18).                          *)
(***************************************************************************)
\* the scan of the round assigned nbv_index: some viable return is above 0
RoundSelected == Viable # {} /\ MaxReturn(Viable) > 0

\* the view-space index of the selected candidate
SelectedView == views_to_consider[nbv_index + 1]

\* C17: in a round whose scan selected a candidate, the pose in the recorded
\* row is the pose of the view views_to_consider[nbv_index], and the view of
\* the move order is that view.
C17_SelectedViewUsed ==
    /\ []((pc = "decide" /\ RoundSelected) =>
             SubSeq(LastRow, 1, 7) = PoseOf(getView(SelectedView)))
    /\ [][ (pc = "decide" /\ RoundSelected) =>
             move_target' = getView(SelectedView) ]_vars

\* C17, as far as the code goes: the same in rounds whose candidate list is
\* the whole view space, positions and view-space indices being equal
C17_WhileNoViewBad ==
    /\ []((pc = "decide" /\ RoundSelected
              /\ Len(views_to_consider) = NumViews) =>
             SubSeq(LastRow, 1, 7) = PoseOf(getView(SelectedView)))
    /\ [][ (pc = "decide" /\ RoundSelected
              /\ Len(views_to_consider) = NumViews) =>
             move_target' = getView(SelectedView) ]_vars

\* C18: after a cost evaluation made when some move had succeeded, the start
\* view that was handed to movementCost is the view of the last successful
\* move; in the first iteration it is the view fetched at startup.
C18_CostFromLastMove ==
    /\ (pc = "pause2" /\ remote = "cost" /\ moved_to # NoView) =>
          CostFrom = moved_to
    /\ (pc = "pause2" /\ remote = "cost" /\ round = 1) =>
          CostFrom \in StartViews

\* C18, as far as the code goes: the start view of every cost evaluation is
\* the view fetched at startup
C18_CostFromStartView ==
    (pc = "pause2" /\ remote = "cost") => CostFrom \in StartViews

(***************************************************************************)
(* Properties of the stop (claim C19), under SpecFair: run() keeps taking  *)
(* steps while it has one to take.  Every retry helper call of the model   *)
(* ends after at most MaxAttempts failed attempts, so every retried call   *)
(* eventually succeeds or is aborted.                                      *)
(***************************************************************************)
\* STOP_AND_PRINT was processed inside the loop, with no START or PAUSE
\* processed after it
StopPending == InLoop /\ stop_round >= 1

\* C19: once STOP_AND_PRINT was processed inside the loop, run() eventually
\* has written the file and returned, unless START or PAUSE is processed
\* after the stop.
C19_StopLeadsToFlush ==
    StopPending ~> (pc = "done" \/ stop_round = -1)

\* C19, as far as the code goes: the same, unless the iteration ends the
\* process at the reads of the unassigned nbv_index
C19_StopLeadsToFlushOrCrash ==
    StopPending ~> (pc \in { "done", "crashed" } \/ stop_round = -1)

\* C19, the place of the exit: when the loop was left after a stop processed
\* inside it, it was left in the iteration in which the stop was processed
C19_ExitInStopIteration ==
    (pc \in { "save", "done" } /\ stop_round >= 1) => round = stop_round

(***************************************************************************)
(* Properties of the control flags (claim C20).                            *)
(***************************************************************************)
\* C20: at most one of start_, pause_ and stop_and_print_ is true.
C20_AtMostOneFlag ==
    /\ ~(start_ /\ pause_)
    /\ ~(start_ /\ stop_and_print_)
    /\ ~(pause_ /\ stop_and_print_)

\* STOP_AND_PRINT has just been processed between two failed attempts of the
\* moveToAndWait of the second iteration: of the three flags only
\* stop_and_print_ is true
C20_Witness ==
    /\ cmd = "STOP_AND_PRINT"
    /\ pc = "h_attempt"
    /\ h_kind = "move"
    /\ round = 2
    /\ stop_and_print_ /\ ~start_ /\ ~pause_

=============================================================================
